---- MODULE Spec2Model ----
(***************************************************************************)
(* Track generator of src/index.py: the TrackGenerator state machine and   *)
(* the TrackApp handlers that drive it.                                    *)
(*                                                                         *)
(* Angles are fixed-point numbers in millidegrees, positions in            *)
(* thousandths of a length unit.  A float division or multiplication is    *)
(* the exact result rounded to the nearest representable value.            *)
(* random.Random(seed) is a deterministic stream of raw draws fixed by the *)
(* seed.  A seed of the model names one such stream: the tuple             *)
(* <<n, d1, .., d5>>, whose stream answers every noise draw with n and     *)
(* the other draws (countdowns, turn type, magnitude, sign, duration) with *)
(* d1, d2, .., d5, d1, .. in turn.  A run is a function of its seed, as in *)
(* the code, and the seeds cover the extreme draws of every range.         *)
(***************************************************************************)
EXTENDS Integers, Sequences, FiniteSets, TLC

VARIABLES
    gen,          \* a TrackGenerator instance stepped call by call
    calls,        \* number of generate_next_point calls made on gen
    twin,         \* a second, independently constructed TrackGenerator
    returned,     \* << >>, or the pair the last generate_full_track call returned
    app,          \* the TrackApp fields
    timers,       \* pending self.after(40, ...) callbacks, oldest first: their step_count
    angle_in,     \* the argument of a direct normalize_angle call
    angle_out     \* << >>, or <<r>> once that call has returned r

vars == <<gen, calls, twin, returned, app, timers, angle_in, angle_out>>

(***************************************************************************)
(* Bounds of the model.                                                    *)
(***************************************************************************)
\* generate_next_point calls explored on one instance
MaxSteps == 320
\* raw draws are the fractions 0/RawLevels .. (RawLevels-1)/RawLevels of [0,1)
RawLevels == 20

\* the raw draws a seed's stream is made of: the lowest and the highest
RawChoices == {0, RawLevels - 1}

\* the raw noise draws: lowest, middle, highest
NoiseChoices == {0, RawLevels \div 2, RawLevels - 1}

\* the seeds: <<n, d1, .., d5>>
Seeds == {<<n>> \o d : n \in NoiseChoices, d \in [1..5 -> RawChoices]}

(***************************************************************************)
(* Fixed-point arithmetic.                                                 *)
(***************************************************************************)
Deg(d) == d * 1000

Abs(a) == IF a < 0 THEN -a ELSE a

\* a / b for b > 0, rounded to nearest (ties away from zero)
RoundDiv(a, b) ==
    IF a >= 0 THEN (2 * a + b) \div (2 * b) ELSE -((2 * (-a) + b) \div (2 * b))

\* 1000 * sin of x tenths of a degree, 0 <= x <= 1800 (Bhaskara's rational form)
SinTenths(x) ==
    LET p == x * (1800 - x)
    IN  RoundDiv(1000 * p, (4050000 - p) \div 4)

\* 1000 * math.sin(math.radians(a)) for a in millidegrees, -360000 <= a <= 360000
Sin(a) ==
    LET t == RoundDiv(a, 100)
        u == IF t < 0 THEN -t ELSE t
        s == IF u <= 1800 THEN SinTenths(u) ELSE -SinTenths(u - 1800)
    IN  IF t < 0 THEN -s ELSE s

\* 1000 * math.cos(math.radians(a)) for a in millidegrees, -180000 <= a <= 180000
Cos(a) == Sin(a + Deg(90))

(***************************************************************************)
(* random.Random: the stream of a seed and the three draws the code uses.  *)
(***************************************************************************)
\* random.Random(seed): pos counts the draws taken other than noise draws
Random(seed) == [seed |-> seed, pos |-> 0]

\* the raw draw a noise draw gets
NoiseRaw(rng) == rng.seed[1]

\* RawAt as a generator would draw that read the seed entry of the window at
\* every draw instead of its own stream
RawAt_of_seed_entry(rng, k) ==
    app.seed_var[((rng.pos + k) % (Len(app.seed_var) - 1)) + 2]

\* the k-th raw draw from now other than noise draws (k = 0 is the next one)
RawAt(rng, k) == rng.seed[((rng.pos + k) % (Len(rng.seed) - 1)) + 2]

\* the stream after k such draws
Advance(rng, k) == [rng EXCEPT !.pos = (rng.pos + k) % (Len(rng.seed) - 1)]

\* random.uniform(a, b) = a + (b - a) * random()
uniform(raw, a, b) == a + RoundDiv((b - a) * raw, RawLevels)

\* a randint whose range runs one past b
randint_past_end(raw, a, b) == a + (raw * (b - a + 2)) \div RawLevels

\* random.randint(a, b): a..b, both ends included
randint(raw, a, b) == a + (raw * (b - a + 1)) \div RawLevels

\* random.random() < percent / 100
random_below(raw, percent) == raw * 100 < percent * RawLevels

(***************************************************************************)
(* TrackGenerator                                                          *)
(***************************************************************************)
\* TrackGenerator.__init__
TrackGenerator(seed, step_length, num_points) ==
    [ seed                     |-> seed,
      random                   |-> Advance(Random(seed), 1),
      step_length              |-> step_length,
      num_points               |-> num_points,
      current_position         |-> <<0, 0>>,
      track_points             |-> << <<0, 0>> >>,
      current_direction_angle  |-> 0,
      target_direction_angle   |-> 0,
      previous_angles          |-> <<0, 0, 0, 0, 0>>,
      initial_direction        |-> 0,
      cumulative_turn          |-> 0,
      steps_until_next_turn    |-> randint(RawAt(Random(seed), 0), 20, 50),
      turn_indices             |-> << >>,
      turning                  |-> FALSE,
      turn_steps_remaining     |-> 0,
      turn_total_steps         |-> 0,
      turn_angle_increment     |-> 0,
      max_turn_angle           |-> Deg(60),
      max_cumulative_turn      |-> Deg(120),
      backtrack_threshold      |-> Deg(120) ]

RECURSIVE normalize_down(_)
normalize_down(angle) ==
    IF angle > Deg(180) THEN normalize_down(angle - Deg(360)) ELSE angle

RECURSIVE normalize_up(_)
normalize_up(angle) ==
    IF angle < -Deg(180) THEN normalize_up(angle + Deg(360)) ELSE angle

\* TrackGenerator.normalize_angle: the two while loops, one after the other
normalize_angle(angle) == normalize_up(normalize_down(angle))

\* TrackGenerator.get_smoothed_angle: np.mean(self.previous_angles[-3:])
get_smoothed_angle(g) ==
    LET n == Len(g.previous_angles)
    IN  RoundDiv(g.previous_angles[n - 2] + g.previous_angles[n - 1]
                   + g.previous_angles[n], 3)

\* TrackGenerator.would_cause_backtrack
would_cause_backtrack(g, proposed_angle) ==
    LET angle_from_initial ==
            Abs(normalize_angle(proposed_angle - g.initial_direction))
        total_turn_from_initial ==
            Abs(normalize_angle(proposed_angle - g.initial_direction))
    IN  IF angle_from_initial > g.backtrack_threshold THEN TRUE
        ELSE IF total_turn_from_initial > g.max_cumulative_turn THEN TRUE
        ELSE FALSE

\* get_safe_turn_angle without its checks
get_safe_turn_angle_unchecked(g, desired_angle) == desired_angle

\* get_safe_turn_angle that takes the 30% angle without checking it again
get_safe_turn_angle_no_recheck(g, desired_angle) ==
    IF would_cause_backtrack(g, normalize_angle(g.current_direction_angle + desired_angle))
    THEN RoundDiv(desired_angle * 3, 10)
    ELSE desired_angle

\* TrackGenerator.get_safe_turn_angle
get_safe_turn_angle(g, desired_angle) ==
    LET cur  == g.current_direction_angle
        a30  == RoundDiv(desired_angle * 3, 10)
        a20  == RoundDiv((-desired_angle) * 2, 10)
    IN  IF would_cause_backtrack(g, normalize_angle(cur + desired_angle))
        THEN IF would_cause_backtrack(g, normalize_angle(cur + a30))
             THEN IF would_cause_backtrack(g, normalize_angle(cur + a20))
                  THEN 0
                  ELSE a20
             ELSE a30
        ELSE desired_angle

\* turn_start_index as the index of the last point appended
turn_start_index_of_last_point(g) == Len(g.track_points) - 1

\* the index a turn is registered under: len(self.track_points)
turn_start_index(g) == Len(g.track_points)

\* the sign factor (1 if self.random.random() < 0.5 else -1)
sign_of(raw) == IF random_below(raw, 50) THEN 1 ELSE -1

\* start_big_turn that turns by the angle drawn, without get_safe_turn_angle
start_big_turn_by_angle_drawn(g, rng) ==
    LET drawn  == uniform(RawAt(rng, 0), Deg(20), Deg(50)) * sign_of(RawAt(rng, 1))
        target == normalize_angle(g.current_direction_angle + drawn)
        total  == randint(RawAt(rng, 2), 15, 30)
        angle_diff == normalize_angle(target - g.current_direction_angle)
    IN  [g EXCEPT !.random                 = Advance(rng, 3),
                  !.target_direction_angle = target,
                  !.turn_total_steps       = total,
                  !.turn_steps_remaining   = total,
                  !.turn_angle_increment   = RoundDiv(angle_diff, total),
                  !.turning                = TRUE,
                  !.turn_indices           = Append(@, turn_start_index(g))]

\* TrackGenerator.start_big_turn; its draws are the raw draws 0, 1, 2 of rng
start_big_turn(g, rng) ==
    LET drawn  == uniform(RawAt(rng, 0), Deg(20), Deg(50)) * sign_of(RawAt(rng, 1))
        big_turn_angle == get_safe_turn_angle(g, drawn)
        target == normalize_angle(g.current_direction_angle + big_turn_angle)
        total  == randint(RawAt(rng, 2), 15, 30)
        angle_diff == normalize_angle(target - g.current_direction_angle)
    IN  [g EXCEPT !.random                 = Advance(rng, 3),
                  !.target_direction_angle = target,
                  !.turn_total_steps       = total,
                  !.turn_steps_remaining   = total,
                  !.turn_angle_increment   = RoundDiv(angle_diff, total),
                  !.turning                = TRUE,
                  !.turn_indices           = Append(@, turn_start_index(g))]

\* step_turn that ends the turn in the call that commits its last increment
step_turn_ends_on_last_increment(g) ==
    LET new_angle == g.current_direction_angle + g.turn_angle_increment
    IN  IF g.turn_steps_remaining > 0 /\ ~would_cause_backtrack(g, new_angle)
        THEN [g EXCEPT !.current_direction_angle = normalize_angle(new_angle),
                       !.previous_angles = Append(@, normalize_angle(new_angle)),
                       !.turn_steps_remaining = @ - 1,
                       !.turning = (g.turn_steps_remaining > 1),
                       !.target_direction_angle =
                           IF g.turn_steps_remaining > 1 THEN @
                           ELSE normalize_angle(new_angle)]
        ELSE [g EXCEPT !.turning = FALSE,
                       !.turn_steps_remaining = 0]

\* step_turn whose last branch leaves the turning flag set
step_turn_never_ends(g) ==
    IF g.turn_steps_remaining > 0
    THEN LET new_angle == g.current_direction_angle + g.turn_angle_increment
         IN  IF ~would_cause_backtrack(g, new_angle)
             THEN [g EXCEPT !.current_direction_angle = normalize_angle(new_angle),
                            !.previous_angles = Append(@, normalize_angle(new_angle)),
                            !.turn_steps_remaining = @ - 1]
             ELSE [g EXCEPT !.turning = FALSE,
                            !.turn_steps_remaining = 0]
    ELSE [g EXCEPT !.target_direction_angle = g.current_direction_angle]

\* TrackGenerator.step_turn
step_turn(g) ==
    IF g.turn_steps_remaining > 0
    THEN LET new_angle == g.current_direction_angle + g.turn_angle_increment
         IN  IF ~would_cause_backtrack(g, new_angle)
             THEN [g EXCEPT !.current_direction_angle = normalize_angle(new_angle),
                            !.previous_angles = Append(@, normalize_angle(new_angle)),
                            !.turn_steps_remaining = @ - 1]
             ELSE [g EXCEPT !.turning = FALSE,
                            !.turn_steps_remaining = 0]
    ELSE [g EXCEPT !.turning = FALSE,
                   !.target_direction_angle = g.current_direction_angle]

\* a noise step that records the kept heading in the history when it drops the noise
noise_step_records_kept_heading(g) ==
    LET noise == uniform(NoiseRaw(g.random), -Deg(1), Deg(1))
        proposed_angle == get_smoothed_angle(g) + noise
        g1 == [g EXCEPT !.steps_until_next_turn = @ - 1]
    IN  IF ~would_cause_backtrack(g1, proposed_angle)
        THEN [g1 EXCEPT !.current_direction_angle = normalize_angle(proposed_angle),
                        !.previous_angles = Append(@, normalize_angle(proposed_angle))]
        ELSE [g1 EXCEPT !.previous_angles = Append(@, g.current_direction_angle)]

\* generate_next_point, countdown still running: smoothed heading plus noise
noise_step(g) ==
    LET noise == uniform(NoiseRaw(g.random), -Deg(1), Deg(1))
        proposed_angle == get_smoothed_angle(g) + noise
        g1 == [g EXCEPT !.steps_until_next_turn = @ - 1]
    IN  IF ~would_cause_backtrack(g1, proposed_angle)
        THEN [g1 EXCEPT !.current_direction_angle = normalize_angle(proposed_angle),
                        !.previous_angles = Append(@, normalize_angle(proposed_angle))]
        ELSE g1

\* generate_next_point, small soft turn; its draws are the raw draws 0, 1 of rng
small_turn(g, rng) ==
    LET small_turn_angle ==
            uniform(RawAt(rng, 0), Deg(2), Deg(15)) * sign_of(RawAt(rng, 1))
        safe_turn_angle == get_safe_turn_angle(g, small_turn_angle)
        angle == normalize_angle(g.current_direction_angle + safe_turn_angle)
    IN  [g EXCEPT !.random = Advance(rng, 2),
                  !.current_direction_angle = angle,
                  !.previous_angles = Append(@, angle),
                  !.turn_indices = IF Abs(safe_turn_angle) > Deg(1) \div 2
                                   THEN Append(@, turn_start_index(g))
                                   ELSE @]

\* turn_decision with the else of the turn type test lost: a small turn falls
\* through into the start of a big turn
turn_decision_fallthrough(g) ==
    LET g1 == [g EXCEPT !.steps_until_next_turn = randint(RawAt(g.random, 0), 30, 70)]
        turn_type_roll == RawAt(g.random, 1)
    IN  IF random_below(turn_type_roll, 85)
        THEN start_big_turn(small_turn(g1, Advance(g.random, 2)), Advance(g.random, 4))
        ELSE start_big_turn(g1, Advance(g.random, 2))

\* generate_next_point, countdown at zero: reseed it and decide the turn type
turn_decision(g) ==
    LET g1 == [g EXCEPT !.steps_until_next_turn = randint(RawAt(g.random, 0), 30, 70)]
        turn_type_roll == RawAt(g.random, 1)
    IN  IF random_below(turn_type_roll, 85)
        THEN small_turn(g1, Advance(g.random, 2))
        ELSE start_big_turn(g1, Advance(g.random, 2))

\* generate_next_point, "Move forward by step length"
move_forward(g) ==
    LET x  == g.current_position[1]
        y  == g.current_position[2]
        dx == Cos(g.current_direction_angle) * g.step_length
        dy == Sin(g.current_direction_angle) * g.step_length
        new_pos == <<x + dx, y + dy>>
    IN  [g EXCEPT !.current_position = new_pos,
                  !.track_points = Append(@, new_pos)]

\* the heading update of generate_next_point, before the move
update_heading(g) ==
    IF g.turning THEN step_turn(g)
    ELSE IF g.steps_until_next_turn > 0 THEN noise_step(g)
    ELSE turn_decision(g)

\* generate_next_point returning early from the call that ends a big turn
generate_next_point_silent_turn_end(g) ==
    IF g.turning /\ g.turn_steps_remaining = 0
    THEN update_heading(g)
    ELSE move_forward(update_heading(g))

\* TrackGenerator.generate_next_point
generate_next_point(g) == move_forward(update_heading(g))

\* n iterations of the loop body self.generate_next_point().  The test on g1 is
\* always true: it has TLC evaluate one iteration before it enters the next.
RECURSIVE repeat_next_point(_, _)
repeat_next_point(g, n) ==
    IF n <= 0 THEN g
    ELSE LET g1 == generate_next_point(g)
         IN  IF Len(g1.track_points) > 0 THEN repeat_next_point(g1, n - 1) ELSE g1

\* generate_full_track with a loop one iteration short
generate_full_track_one_short(g) == repeat_next_point(g, g.num_points - 1)

\* TrackGenerator.generate_full_track: range(num_points) is empty for num_points <= 0
generate_full_track(g) == repeat_next_point(g, g.num_points)

(***************************************************************************)
(* TrackApp: the fields and the handlers of the live run.  Drawing calls   *)
(* change no field and are left out.                                       *)
(***************************************************************************)
\* Python's None, where a field holds None or an object
None == [none |-> TRUE]

\* what an axes shows after ax.clear(): no path and no turns
EmptyAxes == [xs |-> << >>, ys |-> << >>, turn_x |-> << >>, turn_y |-> << >>]

\* TrackApp.__init__, with the seed and length entries as the user left them
TrackApp(seed_entry, length_entry) ==
    [ seed_var      |-> seed_entry,
      length_var    |-> length_entry,
      stop_live     |-> FALSE,
      track_gen     |-> None,
      live_points_x |-> << >>,
      live_points_y |-> << >>,
      live_turns_x  |-> << >>,
      live_turns_y  |-> << >>,
      ax_full       |-> EmptyAxes ]

\* a live step that looks for the turn one index past the point it appended
live_step_body_index_past_point(a) ==
    LET g == generate_next_point(a.track_gen)
        x == g.current_position[1]
        y == g.current_position[2]
        xs == Append(a.live_points_x, x)
        is_turn == /\ Len(g.turn_indices) > 0
                   /\ g.turn_indices[Len(g.turn_indices)] = Len(xs)
    IN  [a EXCEPT !.track_gen     = g,
                  !.live_points_x = xs,
                  !.live_points_y = Append(@, y),
                  !.live_turns_x  = IF is_turn THEN Append(@, x) ELSE @,
                  !.live_turns_y  = IF is_turn THEN Append(@, y) ELSE @]

\* TrackApp.live_step without its early return: one point, one redraw
live_step_body(a) ==
    LET g == generate_next_point(a.track_gen)
        x == g.current_position[1]
        y == g.current_position[2]
        xs == Append(a.live_points_x, x)
        is_turn == /\ Len(g.turn_indices) > 0
                   /\ g.turn_indices[Len(g.turn_indices)] = Len(xs) - 1
    IN  [a EXCEPT !.track_gen     = g,
                  !.live_points_x = xs,
                  !.live_points_y = Append(@, y),
                  !.live_turns_x  = IF is_turn THEN Append(@, x) ELSE @,
                  !.live_turns_y  = IF is_turn THEN Append(@, y) ELSE @]

\* TrackApp.live_step: whether the call goes past its early return
live_step_runs(a, step_count) ==
    ~(a.stop_live \/ step_count >= a.track_gen.num_points)

\* TrackApp.live_step: the fields after the call
live_step(a, step_count) ==
    IF live_step_runs(a, step_count) THEN live_step_body(a) ELSE a

\* TrackApp.live_step: the callbacks pending after the call, given those before
live_step_timers(a, pending, step_count) ==
    IF live_step_runs(a, step_count) THEN Append(pending, step_count + 1) ELSE pending

\* TrackApp.start_live_generation up to its call of live_step(0)
start_live_reset(a) ==
    [a EXCEPT !.stop_live     = FALSE,
              !.track_gen     = TrackGenerator(a.seed_var, 10, a.length_var),
              !.live_points_x = <<0>>,
              !.live_points_y = <<0>>,
              !.live_turns_x  = << >>,
              !.live_turns_y  = << >>]

\* TrackApp.generate_full_track, what it plots on ax_full: the path through the
\* points and, in red, the points whose (0-based) index is in turn_indices
full_track_plot(points, turn_indices) ==
    [ xs     |-> [i \in 1..Len(points) |-> points[i][1]],
      ys     |-> [i \in 1..Len(points) |-> points[i][2]],
      turn_x |-> [k \in 1..Len(turn_indices) |-> points[turn_indices[k] + 1][1]],
      turn_y |-> [k \in 1..Len(turn_indices) |-> points[turn_indices[k] + 1][2]] ]

\* TrackApp.generate_full_track: a new generator run to its end and plotted; an
\* index outside the points raises inside the try and the canvas is not redrawn
TrackApp_generate_full_track(a) ==
    LET g == generate_full_track(TrackGenerator(a.seed_var, 10, a.length_var))
        plotted == \A k \in 1..Len(g.turn_indices) :
                       g.turn_indices[k] + 1 \in 1..Len(g.track_points)
    IN  [a EXCEPT !.track_gen = g,
                  !.ax_full   = IF plotted
                                THEN full_track_plot(g.track_points, g.turn_indices)
                                ELSE @]

(***************************************************************************)
(* Spec: one generator, constructed with the default step_length and       *)
(* num_points, stepped by its caller one generate_next_point at a time.    *)
(***************************************************************************)
NoApp == TrackApp(<< >>, 0)

Init ==
    /\ \E seed \in Seeds : gen = TrackGenerator(seed, 10, 200)
    /\ calls = 0
    /\ twin = None
    /\ returned = << >>
    /\ app = NoApp
    /\ timers = << >>
    /\ angle_in = 0
    /\ angle_out = << >>

GenerateNextPoint ==
    /\ calls < MaxSteps
    /\ gen' = generate_next_point(gen)
    /\ calls' = calls + 1
    /\ UNCHANGED <<twin, returned, app, timers, angle_in, angle_out>>

Next == GenerateNextPoint

Spec == Init /\ [][Next]_vars

(***************************************************************************)
(* SpecRuns: the three ways to run a track of the same seed and length:    *)
(* gen stepped call by call, twin by one generate_full_track call, and the *)
(* app's generator by one live run, a step per timer callback.  The        *)
(* Random Seed button may be pressed at any time.                          *)
(***************************************************************************)
\* the length of the tracks run
RunLength == 26

\* seeds whose first countdown is the shortest and whose first turn is the
\* largest to the left: a small turn for one, a big turn of 15 steps for the other
RunSeeds ==
    {s \in Seeds : /\ s[1] = RawLevels - 1
                   /\ s[2] = 0 /\ s[3] = 0 /\ s[5] = RawLevels - 1 /\ s[6] = 0}

InitRuns ==
    /\ \E seed \in RunSeeds, n \in {0, RunLength} :
          /\ app = TrackApp(seed, n)
          /\ gen = TrackGenerator(seed, 10, n)
          /\ twin = TrackGenerator(seed, 10, n)
    /\ calls = 0
    /\ returned = << >>
    /\ timers = << >>
    /\ angle_in = 0
    /\ angle_out = << >>

\* a caller's loop of num_points single calls
StepGen ==
    /\ calls < gen.num_points
    /\ gen' = generate_next_point(gen)
    /\ calls' = calls + 1
    /\ UNCHANGED <<twin, returned, app, timers, angle_in, angle_out>>

\* points, turn_indices = twin.generate_full_track(), on the fresh twin
TwinGenerateFullTrack ==
    /\ returned = << >>
    /\ twin' = generate_full_track(twin)
    /\ returned' = <<twin'.track_points, twin'.turn_indices>>
    /\ UNCHANGED <<gen, calls, app, timers, angle_in, angle_out>>

\* TrackApp.start_live_generation, pressed once
StartLiveGeneration ==
    /\ app.track_gen = None
    /\ app' = live_step(start_live_reset(app), 0)
    /\ timers' = live_step_timers(start_live_reset(app), timers, 0)
    /\ UNCHANGED <<gen, calls, twin, returned, angle_in, angle_out>>

\* the oldest pending callback fires: self.live_step(step_count)
TimerFires ==
    /\ timers # << >>
    /\ app' = live_step(app, Head(timers))
    /\ timers' = live_step_timers(app, Tail(timers), Head(timers))
    /\ UNCHANGED <<gen, calls, twin, returned, angle_in, angle_out>>

\* TrackApp.generate_random_seed: the module-level random picks the new entry
GenerateRandomSeed ==
    /\ \E s \in RunSeeds : app' = [app EXCEPT !.seed_var = s]
    /\ UNCHANGED <<gen, calls, twin, returned, timers, angle_in, angle_out>>

NextRuns ==
    \/ StepGen
    \/ TwinGenerateFullTrack
    \/ StartLiveGeneration
    \/ TimerFires
    \/ GenerateRandomSeed

SpecRuns == InitRuns /\ [][NextRuns]_vars

(***************************************************************************)
(* SpecArgs: the constructor called with any step_length and num_points,   *)
(* valid or not, and the instance then stepped or run in full.             *)
(***************************************************************************)
\* generate_next_point calls explored on an instance built from any arguments
ArgSteps == 30

StepLengths == {-10, 0, 10}

NumPoints == {-3, 0, 3, ArgSteps}

InitArgs ==
    /\ \E seed \in RunSeeds, step_length \in StepLengths, num_points \in NumPoints :
          gen = TrackGenerator(seed, step_length, num_points)
    /\ calls = 0
    /\ twin = None
    /\ returned = << >>
    /\ app = NoApp
    /\ timers = << >>
    /\ angle_in = 0
    /\ angle_out = << >>

\* gen.generate_next_point()
StepAny ==
    /\ calls < ArgSteps
    /\ gen' = generate_next_point(gen)
    /\ calls' = calls + 1
    /\ UNCHANGED <<twin, returned, app, timers, angle_in, angle_out>>

\* points, turn_indices = gen.generate_full_track()
GenerateFullTrack ==
    /\ returned = << >>
    /\ calls + gen.num_points <= ArgSteps
    /\ gen' = generate_full_track(gen)
    /\ calls' = calls + (IF gen.num_points > 0 THEN gen.num_points ELSE 0)
    /\ returned' = <<gen'.track_points, gen'.turn_indices>>
    /\ UNCHANGED <<twin, app, timers, angle_in, angle_out>>

NextArgs ==
    \/ StepAny
    \/ GenerateFullTrack

SpecArgs == InitArgs /\ [][NextArgs]_vars

(***************************************************************************)
(* SpecNormalize: normalize_angle called on its own, on the multiples of   *)
(* 90 degrees up to MaxTurns full turns either way and on their            *)
(* neighbours one millidegree away.                                        *)
(***************************************************************************)
MaxTurns == 4

NormalizeInputs ==
    {k * Deg(90) + e : k \in (-4 * MaxTurns)..(4 * MaxTurns), e \in {-1, 0, 1}}

InitNormalize ==
    /\ angle_in \in NormalizeInputs
    /\ angle_out = << >>
    /\ gen = None
    /\ calls = 0
    /\ twin = None
    /\ returned = << >>
    /\ app = NoApp
    /\ timers = << >>

\* angle_out = self.normalize_angle(angle_in)
NormalizeCall ==
    /\ angle_out = << >>
    /\ angle_out' = <<normalize_angle(angle_in)>>
    /\ UNCHANGED <<gen, calls, twin, returned, app, timers, angle_in>>

NextNormalize == NormalizeCall

SpecNormalize == InitNormalize /\ [][NextNormalize]_vars

(***************************************************************************)
(* SpecApp: the window and its buttons.  Start Live Generation and         *)
(* Generate Full Track may be pressed at any time, also while callbacks of *)
(* an earlier live run are pending; calls counts the presses.              *)
(***************************************************************************)
\* the length entered
AppLength == 3

\* the number of button presses followed
MaxPresses == 3

InitApp ==
    /\ \E seed \in RunSeeds, n \in {AppLength - 1, AppLength} :
          /\ app = TrackApp(seed, n)
          /\ gen = TrackGenerator(seed, 10, n)
    /\ calls = 0
    /\ twin = None
    /\ returned = << >>
    /\ timers = << >>
    /\ angle_in = 0
    /\ angle_out = << >>

\* the Start Live Generation button: TrackApp.start_live_generation
PressStartLive ==
    /\ calls < MaxPresses
    /\ app' = live_step(start_live_reset(app), 0)
    /\ timers' = live_step_timers(start_live_reset(app), timers, 0)
    /\ calls' = calls + 1
    /\ UNCHANGED <<gen, twin, returned, angle_in, angle_out>>

\* the Generate Full Track button: TrackApp.generate_full_track
PressGenerateFullTrack ==
    /\ calls < MaxPresses
    /\ app' = TrackApp_generate_full_track(app)
    /\ calls' = calls + 1
    /\ UNCHANGED <<gen, twin, returned, timers, angle_in, angle_out>>

NextApp ==
    \/ PressStartLive
    \/ PressGenerateFullTrack
    \/ TimerFires

SpecApp == InitApp /\ [][NextApp]_vars

(***************************************************************************)
(* The claims.                                                             *)
(***************************************************************************)
Last(seq) == seq[Len(seq)]

\* the heading the next noise step proposes
ProposedNoiseHeading(g) ==
    get_smoothed_angle(g) + uniform(NoiseRaw(g.random), -Deg(1), Deg(1))

\* C1: after every generate_next_point call, on every branch and across big
\* turns chained back to back, the heading is at most 120 degrees away from
\* the initial heading.
C1_NonBacktracking ==
    Abs(normalize_angle(gen.current_direction_angle - gen.initial_direction))
        <= Deg(120)

\* C1 witness: in the middle of a big turn that follows earlier turns, with the
\* heading and the turn's target both within 10 degrees of the cap.
C1_MidTurnNearCap ==
    /\ gen.turning
    /\ Len(gen.turn_indices) >= 2
    /\ 0 < gen.turn_steps_remaining
    /\ gen.turn_steps_remaining < gen.turn_total_steps
    /\ Abs(gen.current_direction_angle) > Deg(110)
    /\ Abs(gen.target_direction_angle) > Deg(110)

\* the live run's generator was built from the arguments gen was built from
SameArguments(g, h) ==
    /\ g.seed = h.seed
    /\ g.step_length = h.step_length
    /\ g.num_points = h.num_points

LiveRunOver == app.track_gen # None /\ timers = << >>

\* C3: generate_full_track on a fresh generator leaves the points and
\* turn_indices that num_points single generate_next_point calls leave on
\* another fresh generator of the same arguments, and that one uninterrupted
\* live run with these arguments leaves on its generator.
C3_ReplayEquivalence ==
    /\ (returned # << >> /\ calls = gen.num_points)
         => /\ returned = <<gen.track_points, gen.turn_indices>>
            /\ twin.track_points = gen.track_points
            /\ twin.turn_indices = gen.turn_indices
    /\ (returned # << >> /\ LiveRunOver /\ SameArguments(app.track_gen, twin))
         => /\ returned[1] = app.track_gen.track_points
            /\ returned[2] = app.track_gen.turn_indices

\* C3 witness: all three runs of a track of RunLength points are over, and the
\* track has a turn.
C3_AllThreeRunsOver ==
    /\ returned # << >>
    /\ gen.num_points = RunLength
    /\ calls = gen.num_points
    /\ LiveRunOver
    /\ SameArguments(app.track_gen, twin)
    /\ Len(returned[1]) = RunLength + 1
    /\ Len(returned[2]) > 0

\* C4: every generate_next_point call appends exactly one element to points
\* and changes no other: points[0] stays (0,0) and len(points) is one more
\* than the number of calls.
C4_PointsAppendOnly ==
    /\ [](gen.track_points[1] = <<0, 0>> /\ Len(gen.track_points) = 1 + calls)
    /\ [][gen'.track_points = Append(gen.track_points, gen'.current_position)]_vars

\* C4 witness: after at least two turns, a call is due whose noise will be
\* dropped.
C4_DroppedNoiseStepDue ==
    /\ calls < MaxSteps
    /\ ~gen.turning
    /\ gen.steps_until_next_turn > 0
    /\ would_cause_backtrack(gen, ProposedNoiseHeading(gen))
    /\ Len(gen.turn_indices) >= 2
    /\ Len(gen.track_points) = 1 + calls

\* C5 as stated: a value appended to turn_indices is at most len(points) - 1
\* at the moment it is appended.
C5_ValidIndexWhenAppended ==
    [][gen'.turn_indices # gen.turn_indices
         => Last(gen'.turn_indices) <= Len(gen.track_points) - 1]_vars

\* C5 as amended: a call appends at most one value to turn_indices, and that
\* value is len(points) at the moment it is appended: the index of the point
\* the same call appends, a valid index into points once the call returns.
C5_IndexOfThePointAppended ==
    [][gen'.turn_indices # gen.turn_indices
         => /\ gen'.turn_indices = Append(gen.turn_indices, Len(gen.track_points))
            /\ Last(gen'.turn_indices) <= Len(gen'.track_points) - 1
            /\ gen'.track_points[Last(gen'.turn_indices) + 1] = gen'.current_position]_vars

\* C5 witness: a big turn has just started and registered its index.
C5_BigTurnJustStarted ==
    /\ gen.turning
    /\ gen.turn_steps_remaining = gen.turn_total_steps
    /\ Len(gen.turn_indices) >= 2
    /\ Last(gen.turn_indices) = Len(gen.track_points) - 1

\* C6: turn_indices is strictly increasing: non-decreasing, and no two turn
\* events carry the same point index.
C6_TurnIndicesStrictlyIncreasing ==
    \A i \in 1..Len(gen.turn_indices) : \A j \in 1..Len(gen.turn_indices) :
        i < j => gen.turn_indices[i] < gen.turn_indices[j]

\* C6 witness: at least three turns are registered, the last of them the start
\* of a big turn that is still under way some steps later.
C6_ThreeTurnsRegistered ==
    /\ Len(gen.turn_indices) >= 3
    /\ gen.turning
    /\ gen.turn_steps_remaining < gen.turn_total_steps
    /\ Last(gen.turn_indices) < Len(gen.track_points) - 1

\* C7: normalize_angle returns a value congruent to its argument modulo 360
\* that is greater than -180 and at most 180.
C7_NormalizeHalfOpen ==
    angle_out # << >>
    => /\ (angle_out[1] - angle_in) % Deg(360) = 0
       /\ -Deg(180) < angle_out[1]
       /\ angle_out[1] <= Deg(180)

\* C8: the heading history never holds more than 5 headings.
C8_HistoryBounded == Len(gen.previous_angles) <= 5

\* C9: full generation returns a track only for a length that is not negative.
C9_NegativeLengthRejected == returned # << >> => gen.num_points >= 0

\* C10: a generator that has been stepped has a positive step_length.
C10_NonPositiveStepLengthRejected == calls > 0 => gen.step_length > 0

\* C11: in the call after which a big turn is over (completed or aborted),
\* every field of the turn sub-state is back at its value of __init__:
\* turning False, turn_steps_remaining 0, turn_total_steps 0,
\* turn_angle_increment 0, target_direction_angle the current heading.
C11_TurnSubStateReset ==
    [][(gen.turning /\ ~gen'.turning)
         => /\ gen'.turn_steps_remaining = 0
            /\ gen'.turn_total_steps = 0
            /\ gen'.turn_angle_increment = 0
            /\ gen'.target_direction_angle = gen'.current_direction_angle]_vars

\* the square of the distance between points a and b, in millionths
DistanceSquared(a, b) ==
    (b[1] - a[1]) * (b[1] - a[1]) + (b[2] - a[2]) * (b[2] - a[2])

\* d2 is the square of a distance within 1 percent of length (the resolution
\* of Sin and Cos); a distance is never a negative length
IsSquareOfLength(d2, length) ==
    /\ length >= 0
    /\ 980100 * length * length <= d2
    /\ d2 <= 1020100 * length * length

\* C12: the distance between any two consecutive points equals step_length.
C12_StepLengthInvariant ==
    \A i \in 1..(Len(gen.track_points) - 1) :
        IsSquareOfLength(DistanceSquared(gen.track_points[i], gen.track_points[i + 1]),
                         gen.step_length)

\* the desired angles get_safe_turn_angle is tried on in every state: the ends
\* of the ranges the code draws from, and larger ones, either way
DesiredAngles ==
    {sgn * Deg(d) : sgn \in {-1, 1}, d \in {2, 15, 20, 50, 100, 170, 400, 1500}}

\* the three angles get_safe_turn_angle tries, in its order
Candidates(d) == <<d, RoundDiv(d * 3, 10), RoundDiv((-d) * 2, 10)>>

\* adding v to the current heading of g does not backtrack
SafeFrom(g, v) ==
    ~would_cause_backtrack(g, normalize_angle(g.current_direction_angle + v))

\* C13: get_safe_turn_angle(d) is the first of d, 0.3 d, -0.2 d that is safe
\* from the current heading, and 0 if none is; so whenever the current heading
\* does not backtrack, the heading plus get_safe_turn_angle(d) does not either.
C13_SafeTurnAngle ==
    \A d \in DesiredAngles :
        LET r == get_safe_turn_angle(gen, d)
            c == Candidates(d)
        IN  /\ \/ \E i \in 1..3 : /\ r = c[i]
                                  /\ SafeFrom(gen, c[i])
                                  /\ \A j \in 1..(i - 1) : ~SafeFrom(gen, c[j])
               \/ r = 0 /\ \A i \in 1..3 : ~SafeFrom(gen, c[i])
            /\ SafeFrom(gen, 0) => SafeFrom(gen, r)

\* C13 witness: from the current heading a desired 50 degrees is unsafe, and so
\* is 30% of it: get_safe_turn_angle answers with the reversed 20%.
C13_SecondFallbackTaken ==
    /\ calls > 0
    /\ ~SafeFrom(gen, Deg(50))
    /\ ~SafeFrom(gen, Deg(15))
    /\ get_safe_turn_angle(gen, Deg(50)) = -Deg(10)

\* index of the last point of g, counted as the code counts (from 0)
LastIndex(g) == Len(g.track_points) - 1

\* this call of generate_next_point committed a heading (appended to the history)
HeadingCommitted ==
    Len(gen'.previous_angles) = Len(gen.previous_angles) + 1

\* C14 as stated: between steps, turning implies turn_steps_remaining > 0 (the
\* flag is cleared in the very call that decrements the counter to zero).
C14_TurningImpliesStepsRemain ==
    gen.turning => gen.turn_steps_remaining > 0

\* C14 amended: a committed turn step only decrements the counter and leaves the
\* flag set, also when it decrements it to zero; the call after that one clears
\* the flag and sets the target to the current heading without changing the
\* heading; so between steps turning implies turn_steps_remaining >= 0, and a
\* completed turn of duration D occupies D + 1 steps after the step that starts it.
C14_FlagClearedOneCallLater ==
    [][/\ gen.turning => gen.turn_steps_remaining >= 0
       /\ (gen.turning /\ gen.turn_steps_remaining > 0 /\ HeadingCommitted)
            => /\ gen'.turning
               /\ gen'.turn_steps_remaining = gen.turn_steps_remaining - 1
               /\ gen'.target_direction_angle = gen.target_direction_angle
       /\ (gen.turning /\ gen.turn_steps_remaining = 0)
            => /\ ~gen'.turning
               /\ gen'.target_direction_angle = gen.current_direction_angle
               /\ gen'.current_direction_angle = gen.current_direction_angle
               /\ gen'.previous_angles = gen.previous_angles
               /\ gen'.turn_steps_remaining = 0
               /\ LastIndex(gen') - Last(gen.turn_indices) = gen.turn_total_steps + 1]_vars

\* C14 witness: the last increment of a turn has been committed, D steps after
\* the step that started it, and the generator is still turning.
C14_LastIncrementCommittedStillTurning ==
    /\ gen.turning
    /\ gen.turn_steps_remaining = 0
    /\ gen.turn_total_steps > 0
    /\ LastIndex(gen) - Last(gen.turn_indices) = gen.turn_total_steps

\* C15 as stated: the integers drawn lie in ranges that exclude their upper
\* end: the countdown of a new generator in [20,50), every countdown in
\* [0,70) (it counts down from a value drawn in [20,50) or [30,70)), and the
\* duration of the big turn under way in [15,30).
C15_DrawsBelowUpperEnd ==
    /\ calls = 0 => gen.steps_until_next_turn \in 20..49
    /\ gen.steps_until_next_turn \in 0..69
    /\ gen.turning => gen.turn_total_steps \in 15..29

\* C15 amended: the integers drawn lie in ranges that include both ends: the
\* countdown of a new generator in [20,50], every countdown reseeded by a
\* turn-or-straight decision in [30,70], every big-turn duration set by
\* start_big_turn in [15,30].
C15_DrawsInClosedRanges ==
    [][/\ calls = 0 => gen.steps_until_next_turn \in 20..50
       /\ (~gen.turning /\ gen.steps_until_next_turn <= 0)
            => gen'.steps_until_next_turn \in 30..70
       /\ (~gen.turning /\ gen'.turning)
            => /\ gen'.turn_total_steps \in 15..30
               /\ gen'.turn_steps_remaining = gen'.turn_total_steps
       /\ gen'.turn_total_steps # gen.turn_total_steps
            => ~gen.turning /\ gen'.turning]_vars

\* C15 witness: a big turn has just started with the duration 30, the upper end
\* of randint(15, 30).
C15_DurationAtUpperEnd ==
    /\ gen.turning
    /\ gen.turn_total_steps = 30
    /\ gen.turn_steps_remaining = 30

\* the next call is a noise step whose candidate heading would backtrack
NoiseDropDue ==
    /\ ~gen.turning
    /\ gen.steps_until_next_turn > 0
    /\ would_cause_backtrack(gen, ProposedNoiseHeading(gen))

\* C16: a noise step whose candidate would backtrack leaves the heading, the
\* heading history and turn_indices unchanged, decrements the countdown by one
\* and appends one point, step_length along the unchanged heading.
C16_DroppedNoiseFrame ==
    [][NoiseDropDue
         => /\ gen'.current_direction_angle = gen.current_direction_angle
            /\ gen'.previous_angles = gen.previous_angles
            /\ gen'.turn_indices = gen.turn_indices
            /\ gen'.turning = gen.turning
            /\ gen'.steps_until_next_turn = gen.steps_until_next_turn - 1
            /\ Len(gen'.track_points) = Len(gen.track_points) + 1
            /\ Last(gen'.track_points) =
                 <<Last(gen.track_points)[1]
                     + Cos(gen.current_direction_angle) * gen.step_length,
                   Last(gen.track_points)[2]
                     + Sin(gen.current_direction_angle) * gen.step_length>>
            /\ IsSquareOfLength(DistanceSquared(Last(gen.track_points),
                                                Last(gen'.track_points)),
                                gen.step_length)]_vars

\* C16 witness: the last call moved along the heading of the call before it
\* (the last two displacements are equal, and fewer headings are recorded than
\* calls were made), and the noise of the next call will be dropped as well.
C16_NoiseDroppedAndDueAgain ==
    /\ calls >= 2
    /\ calls < MaxSteps
    /\ NoiseDropDue
    /\ LET n == Len(gen.track_points)
           p == gen.track_points
       IN  /\ p[n][1] - p[n - 1][1] = p[n - 1][1] - p[n - 2][1]
           /\ p[n][2] - p[n - 1][2] = p[n - 1][2] - p[n - 2][2]
           /\ p[n][1] - p[n - 1][1] = Cos(gen.current_direction_angle) * gen.step_length
    /\ Len(gen.previous_angles) < calls

\* C17: every big turn ends within D + 1 calls of the call that starts it, D
\* being its turn_total_steps: while turning, the calls made since the start
\* number D minus the steps remaining, each further call either ends the turn
\* or uses up one remaining step, and the call that finds none remaining ends
\* it; outside a turn every call uses up one step of a countdown of at most 70
\* and the call that finds it used up makes a new turn-or-straight decision.
C17_EveryBigTurnEnds ==
    /\ [](/\ gen.turning
            => /\ gen.turn_steps_remaining \in 0..gen.turn_total_steps
               /\ LastIndex(gen) - Last(gen.turn_indices)
                    = gen.turn_total_steps - gen.turn_steps_remaining
          /\ gen.steps_until_next_turn \in 0..70)
    /\ [][/\ gen.turning
            => \/ ~gen'.turning
               \/ gen'.turn_steps_remaining = gen.turn_steps_remaining - 1
          /\ (gen.turning /\ gen.turn_steps_remaining = 0) => ~gen'.turning
          /\ (gen.turning /\ ~gen'.turning)
            => LastIndex(gen') - Last(gen.turn_indices) <= gen.turn_total_steps + 1
          /\ (~gen.turning /\ gen.steps_until_next_turn > 0)
            => /\ ~gen'.turning
               /\ gen'.steps_until_next_turn = gen.steps_until_next_turn - 1
          /\ (~gen.turning /\ gen.steps_until_next_turn = 0)
            => /\ gen'.steps_until_next_turn >= 30
               /\ gen'.turning \/ HeadingCommitted]_vars

\* C17 witness: a big turn of the longest duration, 30, is over, 31 calls
\* after the call that started it.
C17_LongestTurnOver ==
    /\ ~gen.turning
    /\ gen.turn_total_steps = 30
    /\ gen.turn_steps_remaining = 0
    /\ gen.target_direction_angle = gen.current_direction_angle
    /\ LastIndex(gen) - Last(gen.turn_indices) = 31

\* the heading at which the big turn under way in g started
TurnStartHeading(g) ==
    g.current_direction_angle
        - (g.turn_total_steps - g.turn_steps_remaining) * g.turn_angle_increment

\* C18: a big turn is never aborted and reaches its target. While turning, the
\* target is the heading of the start plus an angle of at most 50 degrees
\* (the shortest path is the direct one), the increment is that angle
\* divided by turn_total_steps, every point of the exact interpolation
\* start + j * angle / turn_total_steps, j = 1 .. turn_total_steps, is within
\* 120 degrees of the initial heading, and after the last increment the
\* heading is the target, to the rounding of the increment; every call with
\* steps remaining commits one increment, and nothing else changes the heading
\* until the call that ends the turn with the heading it has reached.
C18_BigTurnReachesTarget ==
    /\ [](gen.turning
            => LET D  == gen.turn_total_steps
                   h0 == TurnStartHeading(gen)
                   a  == gen.target_direction_angle - h0
               IN  /\ D > 0
                   /\ normalize_angle(a) = a
                   /\ Abs(a) <= Deg(50)
                   /\ gen.turn_angle_increment = RoundDiv(a, D)
                   /\ \A j \in 1..D :
                        Abs(D * (h0 - gen.initial_direction) + j * a) <= D * Deg(120)
                   /\ gen.turn_steps_remaining = 0
                        => 2 * Abs(gen.current_direction_angle
                                     - gen.target_direction_angle) <= D)
    /\ [][/\ (gen.turning /\ gen.turn_steps_remaining > 0)
            => /\ HeadingCommitted
               /\ gen'.turning
               /\ gen'.current_direction_angle
                    = gen.current_direction_angle + gen.turn_angle_increment
               /\ gen'.turn_steps_remaining = gen.turn_steps_remaining - 1
          /\ gen.turning
            => /\ gen'.turn_angle_increment = gen.turn_angle_increment
               /\ gen'.turn_total_steps = gen.turn_total_steps
               /\ gen'.random = gen.random
               /\ gen'.steps_until_next_turn = gen.steps_until_next_turn
               /\ gen'.turn_indices = gen.turn_indices
          /\ (gen.turning /\ ~gen'.turning)
            => /\ gen.turn_steps_remaining = 0
               /\ gen'.current_direction_angle = gen.current_direction_angle
               /\ gen'.target_direction_angle = gen.current_direction_angle
               /\ 2 * Abs(gen'.current_direction_angle - gen.target_direction_angle)
                    <= gen.turn_total_steps]_vars

\* C18 witness: every increment of a big turn of at least 15 degrees is
\* committed, its target lies within 10 degrees of the 120-degree cap, and the
\* heading has reached it.
C18_TurnTowardsCapCompleted ==
    /\ gen.turning
    /\ gen.turn_steps_remaining = 0
    /\ Abs(gen.target_direction_angle - TurnStartHeading(gen)) >= Deg(15)
    /\ Abs(gen.target_direction_angle - gen.initial_direction) >= Deg(110)
    /\ 2 * Abs(gen.current_direction_angle - gen.target_direction_angle)
         <= gen.turn_total_steps

\* C19: whatever the order of the button presses and timer callbacks, the
\* generator of the app has taken at most num_points generate_next_point calls:
\* len(points) never exceeds num_points + 1.
C19_GeneratorSteppedByItsRunOnly ==
    app.track_gen # None
        => Len(app.track_gen.track_points) <= app.track_gen.num_points + 1

\* what the live view shows: its path and its marked turns
LiveView(a) ==
    [ xs     |-> a.live_points_x,
      ys     |-> a.live_points_y,
      turn_x |-> a.live_turns_x,
      turn_y |-> a.live_turns_y ]

\* C20: during a live run, from its start and after every timer callback, the
\* live view shows the points of its generator, and marks as turns the points
\* whose index is in turn_indices, in that order; once the run is over it shows
\* and marks what the full-track view plots for the track that
\* generate_full_track returns for the same seed and length.
C20_LiveViewMatchesFullView ==
    /\ app.track_gen # None
         => LiveView(app) = full_track_plot(app.track_gen.track_points,
                                            app.track_gen.turn_indices)
    /\ (returned # << >> /\ LiveRunOver /\ SameArguments(app.track_gen, twin))
         => LiveView(app) = full_track_plot(returned[1], returned[2])

\* C20 witness: the live run of a track of RunLength steps is over and shows a
\* marked turn, and the full track for the same seed and length was returned.
C20_LiveRunOverWithMarkedTurn ==
    /\ LiveRunOver
    /\ returned # << >>
    /\ SameArguments(app.track_gen, twin)
    /\ app.track_gen.num_points = RunLength
    /\ Len(app.live_points_x) = RunLength + 1
    /\ Len(app.live_turns_x) >= 1
    /\ Len(app.live_turns_x) = Len(returned[2])

====
